---- MODULE Spec2Model ----
(***************************************************************************)
(* Model of server.js: the /generate-problem handler, its retrying         *)
(* generateProblem routine, the process-wide questionHistory, the static   *)
(* fallbackProblems bank, and normalizeQuestion on its own.                *)
(*                                                                         *)
(* JavaScript strings that the code transforms or inspects (the topic,     *)
(* the question, the provider's error message) are sequences of            *)
(* one-character strings; strings the code only passes through (answers,   *)
(* the fallback bank's question texts) are TLA+ strings.  Characters       *)
(* outside ASCII in the fallback bank are transliterated (^2, pi, deg).    *)
(***************************************************************************)
EXTENDS Integers, Sequences, FiniteSets, TLC

(***************************************************************************)
(* Bounds of the model.                                                    *)
(***************************************************************************)
\* distinct question texts the provider draws from in the general scenarios
MaxQuestions == 2
\* distinct question texts the provider draws from in the history scenario
MaxHistoryQuestions == 25

(***************************************************************************)
(* Characters and strings.                                                 *)
(***************************************************************************)
Digits == <<"0", "1", "2", "3", "4", "5", "6", "7", "8", "9">>

LowerCase == <<"a", "b", "c", "d", "e", "f", "g", "h", "i", "j", "k", "l", "m",
               "n", "o", "p", "q", "r", "s", "t", "u", "v", "w", "x", "y", "z">>

UpperCase == <<"A", "B", "C", "D", "E", "F", "G", "H", "I", "J", "K", "L", "M",
               "N", "O", "P", "Q", "R", "S", "T", "U", "V", "W", "X", "Y", "Z">>

Range(s) == {s[i] : i \in DOMAIN s}

IndexOf(c, s) == CHOOSE i \in DOMAIN s : s[i] = c

\* the characters the regular expression class \s matches (those the model uses)
WhiteSpace == {" ", "\t", "\n"}

\* [a-z0-9]
IsAlnum(c) == c \in Range(LowerCase) \cup Range(Digits)

\* order of the UTF-16 code units of the characters [0-9a-z]: digits first
CodeUnit(c) ==
  IF c \in Range(Digits) THEN IndexOf(c, Digits)
  ELSE Len(Digits) + IndexOf(c, LowerCase)

\* String.prototype.toLowerCase, one character
LowerChar(c) == IF c \in Range(UpperCase) THEN LowerCase[IndexOf(c, UpperCase)] ELSE c

toLowerCase(s) == [i \in DOMAIN s |-> LowerChar(s[i])]

\* String.prototype.includes
includes(s, sub) ==
  \E i \in 0..(Len(s) - Len(sub)) : SubSeq(s, i + 1, i + Len(sub)) = sub

\* a JavaScript string; the recursive definitions below are functions of it
Str == Seq(STRING)

\* String.prototype.trim
trimStart[s \in Str] ==
  IF s # <<>> /\ Head(s) \in WhiteSpace THEN trimStart[Tail(s)] ELSE s

trimEnd[s \in Str] ==
  IF s # <<>> /\ s[Len(s)] \in WhiteSpace THEN trimEnd[SubSeq(s, 1, Len(s) - 1)] ELSE s

trim(s) == trimEnd[trimStart[s]]

(***************************************************************************)
(* normalizeQuestion (server.js 51-58).                                    *)
(***************************************************************************)
\* .replace(/[^a-z0-9\s]/g, '')
StripNonAlnum(s) == SelectSeq(s, LAMBDA c : IsAlnum(c) \/ c \in WhiteSpace)

\* first index >= i of s that is not whitespace (Len(s) + 1 when there is none)
SkipWhiteSpace[s \in Str, i \in Nat] ==
  IF i <= Len(s) /\ s[i] \in WhiteSpace THEN SkipWhiteSpace[s, i + 1] ELSE i

\* .split(/\s+/): every maximal run of whitespace is one separator, so a
\* leading or a trailing run yields an empty first or last word
SplitFrom[s \in Str, i \in Nat, word \in Str] ==
  IF i > Len(s) THEN <<word>>
  ELSE IF s[i] \in WhiteSpace
         THEN <<word>> \o SplitFrom[s, SkipWhiteSpace[s, i], <<>>]
         ELSE SplitFrom[s, i + 1, Append(word, s[i])]

SplitWhiteSpace(s) == SplitFrom[s, 1, <<>>]

\* comparison of Array.prototype.sort without a comparator: by code units
WordLessEq[a \in Str, b \in Str] ==
  IF a = <<>> THEN TRUE
  ELSE IF b = <<>> THEN FALSE
  ELSE IF Head(a) = Head(b) THEN WordLessEq[Tail(a), Tail(b)]
  ELSE CodeUnit(Head(a)) < CodeUnit(Head(b))

InsertWord[w \in Str, ws \in Seq(Str)] ==
  IF ws = <<>> THEN <<w>>
  ELSE IF WordLessEq[w, Head(ws)] THEN <<w>> \o ws
  ELSE <<Head(ws)>> \o InsertWord[w, Tail(ws)]

\* .sort()
SortWords[ws \in Seq(Str)] ==
  IF ws = <<>> THEN <<>> ELSE InsertWord[Head(ws), SortWords[Tail(ws)]]

\* .join(' ')
JoinWords[ws \in Seq(Str)] ==
  IF ws = <<>> THEN <<>>
  ELSE IF Len(ws) = 1 THEN Head(ws)
  ELSE Head(ws) \o <<" ">> \o JoinWords[Tail(ws)]

normalizeQuestion(question) ==
  JoinWords[SortWords[SplitWhiteSpace(StripNonAlnum(toLowerCase(question)))]]

(***************************************************************************)
(* JSON values: what a field of a parsed completion or of a Problem holds. *)
(***************************************************************************)
JString(s) == [t |-> "string", s |-> s]

\* a number other than 0
JNumber == [t |-> "number", s |-> <<>>]

JArray(s) == [t |-> "array", s |-> s]

\* the field is not there
JUndefined == [t |-> "undefined", s |-> <<>>]

\* JavaScript truthiness of a field: !v is false
Truthy(v) == v.t \in {"number", "array", "object"} \/ (v.t = "string" /\ v.s # <<>>)

(***************************************************************************)
(* Topics.                                                                 *)
(***************************************************************************)
geometry == <<"g", "e", "o", "m", "e", "t", "r", "y">>

functions == <<"f", "u", "n", "c", "t", "i", "o", "n", "s">>

trigonometry == <<"t", "r", "i", "g", "o", "n", "o", "m", "e", "t", "r", "y">>

quadraticEquations ==
  <<"q", "u", "a", "d", "r", "a", "t", "i", "c", " ", "e", "q", "u", "a", "t", "i", "o", "n", "s">>

algebra == <<"a", "l", "g", "e", "b", "r", "a">>

(***************************************************************************)
(* fallbackProblems (server.js 21-48): grade -> topic -> canned Problems.  *)
(***************************************************************************)
FallbackEntry(question, answer, type) ==
  [question |-> JString(<<question>>), answer |-> JString(<<answer>>),
   options |-> JUndefined, type |-> JString(type)]

fallbackProblems ==
  [grade \in {"10"} |->
    [topic \in {geometry, functions, trigonometry, quadraticEquations} |->
      CASE topic = geometry -> <<
             FallbackEntry("What is the area of a triangle with base 6 cm and height 8 cm?",
                           "24 cm^2", geometry),
             FallbackEntry("Find the circumference of a circle with radius 5 cm (use pi ~ 3.14).",
                           "31.4 cm", geometry),
             FallbackEntry("What is the measure of an interior angle of a regular pentagon?",
                           "108 degrees", geometry),
             FallbackEntry("A rectangle has a length of 10 cm and a width of 4 cm. What is its perimeter?",
                           "28 cm", geometry),
             FallbackEntry("What is the area of a circle with diameter 10 cm (use pi ~ 3.14)?",
                           "78.5 cm^2", geometry),
             FallbackEntry("Find the length of the hypotenuse of a right triangle with legs 3 cm and 4 cm.",
                           "5 cm", geometry),
             FallbackEntry("What is the sum of the interior angles of a hexagon?",
                           "720 degrees", geometry) >>
        [] topic = functions -> <<
             FallbackEntry("For the function f(x) = 2x + 3, what is f(4)?", "11", functions),
             FallbackEntry("What is the domain of the function f(x) = 1/(x-2)?",
                           "All real numbers except x = 2", functions),
             FallbackEntry("Find the slope of the line given by f(x) = -3x + 5.", "-3", functions),
             FallbackEntry("If f(x) = x^2, what is f(-3)?", "9", functions) >>
        [] topic = trigonometry -> <<
             FallbackEntry("In a right triangle, if one angle is 30 deg, what is the sine of that angle?",
                           "0.5", trigonometry),
             FallbackEntry("Find the cosine of 60 deg.", "0.5", trigonometry) >>
        [] topic = quadraticEquations -> <<
             FallbackEntry("Solve the quadratic equation x^2 - 4x + 4 = 0.", "x = 2",
                           quadraticEquations),
             FallbackEntry("What is the vertex of the parabola y = x^2 + 2x - 3?", "(-1, -4)",
                           quadraticEquations) >>]]

\* the template literal of server.js 131 (and 243), its pieces in order
PlaceholderProblem(normalizedGrade, normalizedTopic) ==
  [question |-> JString(<<"Fallback problem for grade ", normalizedGrade, " (">>
                        \o normalizedTopic
                        \o <<"): Solve a basic problem related to ">>
                        \o normalizedTopic \o <<".">>),
   answer |-> JString(<<"N/A">>),
   options |-> JUndefined,
   type |-> JString(normalizedTopic)]

\* fallbackProblems[normalizedGrade]?.[normalizedTopic] || [ placeholder ]
FallbackList(normalizedGrade, normalizedTopic) ==
  IF /\ normalizedGrade \in DOMAIN fallbackProblems
     /\ normalizedTopic \in DOMAIN fallbackProblems[normalizedGrade]
    THEN fallbackProblems[normalizedGrade][normalizedTopic]
    ELSE <<PlaceholderProblem(normalizedGrade, normalizedTopic)>>

(***************************************************************************)
(* The curriculum map, ../MathApp/public/curriculum-map.json: grade ->     *)
(* topic names.  The file is not part of the sources at hand; the map      *)
(* below follows its description (grade -> ordered valid topic names).     *)
(***************************************************************************)
curriculumTopics ==
  [grade \in {"9", "10"} |->
    IF grade = "9"
      THEN << <<"A", "l", "g", "e", "b", "r", "a">> >>
      ELSE << <<"G", "e", "o", "m", "e", "t", "r", "y">>,
              <<"T", "r", "i", "g", "o", "n", "o", "m", "e", "t", "r", "y">> >>]

(***************************************************************************)
(* decodeURIComponent: %XX escapes are decoded, any other % is a URIError. *)
(***************************************************************************)
\* the escapes the model's topics use
PercentEscapes == { <<"2", "0">>, <<"2", "5">> }

PercentDecoded(pair) == IF pair = <<"2", "0">> THEN " " ELSE "%"

DecodeThrows[s \in Str] ==
  IF s = <<>> THEN FALSE
  ELSE IF Head(s) # "%" THEN DecodeThrows[Tail(s)]
  ELSE IF Len(s) >= 3 /\ SubSeq(s, 2, 3) \in PercentEscapes
         THEN DecodeThrows[SubSeq(s, 4, Len(s))]
         ELSE TRUE

decodeURIComponent[s \in Str] ==
  IF s = <<>> THEN <<>>
  ELSE IF Head(s) # "%" THEN <<Head(s)>> \o decodeURIComponent[Tail(s)]
  ELSE <<PercentDecoded(SubSeq(s, 2, 3))>> \o decodeURIComponent[SubSeq(s, 4, Len(s))]

(***************************************************************************)
(* What the provider can send back: the settlement of axios.post           *)
(* (server.js 146-165), as far as the handler looks at it.                 *)
(***************************************************************************)
NoProblem ==
  [question |-> JUndefined, answer |-> JUndefined, options |-> JUndefined, type |-> JUndefined]

\* choices[0].message.content: its first and last character and what
\* JSON.parse makes of it (parses = FALSE: JSON.parse throws a SyntaxError)
Content(first, last, parses, json) ==
  [first |-> first, last |-> last, parses |-> parses, json |-> json]

NoContent == Content("", "", FALSE, NoProblem)

\* the promise is fulfilled with a response whose data is null, or has no
\* completion text, or has the completion text `content`
Resolved(isNull, hasContent, content) ==
  [settled |-> "resolved", isNull |-> isNull, hasContent |-> hasContent, content |-> content,
   status |-> 200, dataError |-> JUndefined, dataErrorMessage |-> JUndefined, message |-> <<>>]

\* the promise is rejected: apiError.response?.status (0: there is no response),
\* apiError.response?.data?.error, its .message, and apiError.message
Rejected(status, dataError, dataErrorMessage, message) ==
  [settled |-> "rejected", isNull |-> FALSE, hasContent |-> FALSE, content |-> NoContent,
   status |-> status, dataError |-> dataError, dataErrorMessage |-> dataErrorMessage,
   message |-> message]

\* no call is outstanding or settled
NoOutcome ==
  [settled |-> "none", isNull |-> FALSE, hasContent |-> FALSE, content |-> NoContent,
   status |-> 0, dataError |-> JUndefined, dataErrorMessage |-> JUndefined, message |-> <<>>]

\* decimal digits of a number below 100
NumStr(n) ==
  IF n < 10 THEN <<Digits[n + 1]>> ELSE <<Digits[(n \div 10) + 1], Digits[(n % 10) + 1]>>

\* the q-th question text the provider knows, in two wordings that differ in
\* case, punctuation and word order:  "What is 7?"  and  "IS what, 7?!"
QuestionText(q, wording) ==
  IF wording = 1
    THEN <<"W", "h", "a", "t", " ", "i", "s", " ">> \o NumStr(q) \o <<"?">>
    ELSE <<"I", "S", " ", "w", "h", "a", "t", ",", " ">> \o NumStr(q) \o <<"?", "!">>

Wordings == {1, 2}

\* a completion that is the JSON object the prompt asks for; the second
\* wording also carries three options and a type of its own
Completion(q, wording) ==
  Content("{", "}", TRUE,
          [question |-> JString(QuestionText(q, wording)),
           answer |-> JString(<<"42">>),
           options |-> IF wording = 1 THEN JArray(<<>>) ELSE JArray(<<"41", "42", "43">>),
           type |-> IF wording = 1 THEN JUndefined ELSE JString(<<"other">>)])

\* axios' message for a response with an error status
RequestFailed(status) ==
  <<"R", "e", "q", "u", "e", "s", "t", " ", "f", "a", "i", "l", "e", "d", " ",
    "w", "i", "t", "h", " ", "s", "t", "a", "t", "u", "s", " ", "c", "o", "d", "e", " ">>
    \o <<Digits[(status \div 100) + 1], Digits[((status \div 10) % 10) + 1],
         Digits[(status % 10) + 1]>>

\* a field that holds an object
JObject == [t |-> "object", s |-> <<>>]

\* an error body { error: { message } }
ErrorBody(status, message) ==
  Rejected(status, JObject, JString(message), RequestFailed(status))

ModelDoesNotExist ==
  <<"T", "h", "e", " ", "m", "o", "d", "e", "l", " ", "g", "r", "o", "k", "-", "3", " ",
    "d", "o", "e", "s", " ", "n", "o", "t", " ", "e", "x", "i", "s", "t">>

ResourceNotFound ==
  <<"T", "h", "e", " ", "r", "e", "q", "u", "e", "s", "t", "e", "d", " ", "r", "e", "s",
    "o", "u", "r", "c", "e", " ", "w", "a", "s", " ", "n", "o", "t", " ", "f", "o", "u",
    "n", "d">>

\* a message that names both
ModelResourceNotFound ==
  ResourceNotFound \o <<":", " ", "m", "o", "d", "e", "l", " ", "g", "r", "o", "k", "-", "3">>

CapitalModelNotFound ==
  <<"M", "o", "d", "e", "l", " ", "g", "r", "o", "k", "-", "3", " ", "n", "o", "t", " ",
    "f", "o", "u", "n", "d">>

\* the completions of the questions the provider may return now: one of the
\* first `limit` texts, a text it has not used before only as the next in order
QuestionOutcomes(limit, used) ==
  { Resolved(FALSE, TRUE, Completion(q, w)) :
      q \in 1..(IF used + 1 < limit THEN used + 1 ELSE limit), w \in Wordings }

MalformedOutcomes ==
  { Resolved(FALSE, FALSE, NoContent),                                \* no choices / no content
    Resolved(FALSE, TRUE, Content("S", ".", FALSE, NoProblem)),        \* prose, not JSON
    Resolved(FALSE, TRUE, Content("{", "}", FALSE, NoProblem)),        \* braces, SyntaxError
    Resolved(FALSE, TRUE,
             Content("{", "}", TRUE, [NoProblem EXCEPT !.question = JString(QuestionText(1, 1))])),
    Resolved(FALSE, TRUE,
             Content("{", "}", TRUE, [NoProblem EXCEPT !.answer = JString(<<"42">>)])) }

ThrowingOutcomes ==
  { Resolved(TRUE, FALSE, NoContent),                                  \* response.data is null
    Resolved(FALSE, TRUE,                                              \* question is a number
             Content("{", "}", TRUE,
                     [NoProblem EXCEPT !.question = JNumber, !.answer = JString(<<"42">>)])) }

\* completions that pass the test of server.js 184 although a field is not
\* what the prompt asks for: an answer that is an empty array, with options
\* that are a string; an answer that is a number, without options
LooseOutcomes ==
  { Resolved(FALSE, TRUE,
             Content("{", "}", TRUE,
                     [question |-> JString(QuestionText(1, 1)), answer |-> JArray(<<>>),
                      options |-> JString(<<"none">>), type |-> JUndefined])),
    Resolved(FALSE, TRUE,
             Content("{", "}", TRUE,
                     [question |-> JString(QuestionText(1, 2)), answer |-> JNumber,
                      options |-> JUndefined, type |-> JNumber])) }

TransientStatusOutcomes ==
  { Rejected(st, JUndefined, JUndefined, RequestFailed(st)) : st \in {429, 400, 500} }

NotFoundOutcomes ==
  { ErrorBody(404, ModelDoesNotExist),
    ErrorBody(404, ResourceNotFound),
    ErrorBody(404, ModelResourceNotFound),
    ErrorBody(404, CapitalModelNotFound),
    Rejected(404, JString(ResourceNotFound), JUndefined, RequestFailed(404)),
    Rejected(404, JObject, JUndefined, RequestFailed(404)),
    Rejected(404, JUndefined, JUndefined, RequestFailed(404)) }

OtherFailureOutcomes ==
  { Rejected(0, JUndefined, JUndefined, <<"Network Error">>),          \* no response at all
    ErrorBody(401, ModelDoesNotExist) }

\* what the provider of a scenario may answer, `used` distinct questions
\* having been generated so far
Outcomes(profile, used) ==
  CASE profile = "any" ->
         QuestionOutcomes(MaxQuestions, used) \cup MalformedOutcomes \cup ThrowingOutcomes
           \cup LooseOutcomes \cup TransientStatusOutcomes \cup NotFoundOutcomes \cup OtherFailureOutcomes
    [] profile = "mixed" ->
         QuestionOutcomes(MaxQuestions, used)
           \cup { Rejected(429, JUndefined, JUndefined, RequestFailed(429)),
                  ErrorBody(404, ModelDoesNotExist),
                  Rejected(0, JUndefined, JUndefined, <<"Network Error">>) }
    [] profile = "fresh" ->
         { Resolved(FALSE, TRUE, Completion(q, 1)) :
             q \in {used + 1} \cap 1..MaxHistoryQuestions }

(***************************************************************************)
(* The requests clients send: req.query.grade and req.query.topic ("" and  *)
(* <<>>: the parameter is missing or empty).                               *)
(***************************************************************************)
Query(grade, topic) == [grade |-> grade, topic |-> topic]

Inputs(traffic) ==
  IF traffic = "valid"
    THEN { Query("10", <<"T", "r", "i", "g", "o", "n", "o", "m", "e", "t", "r", "y">>) }
    ELSE { Query("10", <<"T", "r", "i", "g", "o", "n", "o", "m", "e", "t", "r", "y">>),
           Query("10", <<"%", "2", "0", "G", "E", "O", "M", "E", "T", "R", "Y", " ">>),
           Query("9", <<"a", "l", "g", "e", "b", "r", "a">>),
           Query("9", <<"G", "e", "o", "m", "e", "t", "r", "y">>),
           Query("11", <<"a", "l", "g", "e", "b", "r", "a">>),
           Query("", <<"a", "l", "g", "e", "b", "r", "a">>),
           Query("10", <<>>),
           Query("10", <<"1", "0", "0", "%">>) }

(***************************************************************************)
(* State.                                                                  *)
(***************************************************************************)
VARIABLES
  questionHistory,  \* server.js 13: recent normalized questions, oldest first
  apiKey,           \* process.env.XAI_API_KEY is set
  req,              \* client -> its latest /generate-problem request
  generated,        \* every normalized question pushed so far, in order
  provider,         \* the scenario's provider: which Outcomes it may answer
  traffic,          \* the scenario's traffic: which Inputs clients send
  norm              \* the scenario of normalizeQuestion alone: its input and results

vars == <<questionHistory, apiKey, req, generated, provider, traffic, norm>>

Clients == DOMAIN req

\* nothing has been sent on res
NoResponse ==
  [status |-> 0, site |-> "none", error |-> <<>>, problem |-> NoProblem, noStore |-> FALSE]

\* res.status(status).json(body), sent at `site`
Response(status, site, error, problem, noStore) ==
  [status |-> status, site |-> site, error |-> error, problem |-> problem, noStore |-> noStore]

\* No request yet.  phase: where the request is.  grade, topic: the query.
\* normalizedGrade, normalizedTopic: the constants of server.js 107-108, once
\* they are set.  retryCount: the argument
\* of the running (or last) generateProblem invocation.  timer: the argument
\* the pending setTimeout callback will pass.  calls: axios.post calls made.
\* outcome: the settlement of the outstanding call, not yet looked at.
\* lastRetry: why the last retry was scheduled.  unreachable: every call
\* so far has failed without an HTTP response.
\* sent: responses sent on res.  scheduled: setTimeout calls made.
IdleRequest ==
  [phase |-> "idle", grade |-> "", topic |-> <<>>,
   normalizedGrade |-> "", normalizedTopic |-> <<>>, retryCount |-> 0, timer |-> 0,
   calls |-> 0, outcome |-> NoOutcome, lastRetry |-> "none", unreachable |-> TRUE,
   sent |-> 0, scheduled |-> 0, res |-> NoResponse]

\* server.js 107: topic ? decodeURIComponent(topic).trim().toLowerCase() : ''
NormalizeTopic(topic) ==
  IF topic # <<>> THEN toLowerCase(trim(decodeURIComponent[topic])) ELSE <<>>

\* server.js 108: grade ? grade.toString() : ''
NormalizeGrade(grade) == grade

\* server.js 115
InCurriculum(grade, topic) ==
  /\ grade \in DOMAIN curriculumTopics
  /\ \E i \in DOMAIN curriculumTopics[grade] : toLowerCase(curriculumTopics[grade][i]) = topic

(***************************************************************************)
(* generateProblem (server.js 127-249).                                    *)
(***************************************************************************)
maxRetries == 7

HistoryCapacity == 20

\* the request has ended with `response`
Respond(r, response) ==
  [r EXCEPT !.phase = "done", !.res = response, !.outcome = NoOutcome, !.timer = 0,
            !.sent = @ + 1]

\* server.js 130-135, 242-247: one of the fallback list, picked at random
FallbackResponses(r, site) ==
  { Response(200, site, <<>>, problem, FALSE) :
      problem \in Range(FallbackList(r.normalizedGrade, r.normalizedTopic)) }

\* mutant: the bound is tested with > instead of >=
RetriesExhaustedOffByOne(retryCount) == retryCount > maxRetries

\* server.js 128
RetriesExhausted(retryCount) == retryCount >= maxRetries

\* server.js 127-165: an invocation up to its await: the requests it can
\* leave behind (a fallback response, or a call of the provider)
GenerateProblem(r, retryCount) ==
  IF RetriesExhausted(retryCount)
    THEN { Respond([r EXCEPT !.retryCount = retryCount], response) :
             response \in FallbackResponses(r, "exhausted") }
    ELSE { [r EXCEPT !.phase = "calling", !.retryCount = retryCount, !.timer = 0,
                     !.calls = @ + 1, !.outcome = NoOutcome] }

\* mutant: the invocation returns without having set the timer
ScheduleRetryDropped(r, why) ==
  [r EXCEPT !.phase = "returned", !.outcome = NoOutcome, !.lastRetry = why]

\* mutant: the retry is scheduled with the same retryCount
ScheduleRetrySameCount(r, why) ==
  [r EXCEPT !.phase = "waiting", !.timer = r.retryCount, !.outcome = NoOutcome,
            !.lastRetry = why]

\* mutant: the retry is scheduled with retryCount + 2
ScheduleRetrySkipsOne(r, why) ==
  [r EXCEPT !.phase = "waiting", !.timer = r.retryCount + 2, !.outcome = NoOutcome,
            !.lastRetry = why]

\* mutant: the return after setTimeout is missing: the invocation goes on,
\* fails on the completion it does not have, and answers with the fallback
\* while its retry is pending
ScheduleRetryWithoutReturn(r, why) ==
  [r EXCEPT !.phase = "waiting", !.timer = r.retryCount + 1, !.outcome = NoOutcome,
            !.lastRetry = why, !.scheduled = @ + 1, !.sent = @ + 1,
            !.res = Response(200, "apiError", <<>>,
                             FallbackList(r.normalizedGrade, r.normalizedTopic)[1], FALSE)]

\* setTimeout(() => generateProblem(retryCount + 1, maxRetries), 1000); return
ScheduleRetry(r, why) ==
  [r EXCEPT !.phase = "waiting", !.timer = r.retryCount + 1, !.outcome = NoOutcome,
            !.lastRetry = why, !.scheduled = @ + 1]

\* server.js 169
MissingCompletion(o) == ~o.hasContent

\* server.js 177-185: the inner try throws
ParseFails(content) ==
  \/ content.first # "{" \/ content.last # "}"
  \/ ~content.parses
  \/ ~Truthy(content.json.question) \/ ~Truthy(content.json.answer)

\* server.js 169-192: the settled call carries a completion that passes the
\* tests of lines 169-185 and whose question normalizeQuestion accepts
BringsQuestion(o) ==
  /\ o.settled = "resolved" /\ ~o.isNull
  /\ ~MissingCompletion(o) /\ ~ParseFails(o.content)
  /\ o.content.json.question.t = "string"

\* server.js 192: normalizeQuestion(problemData.question)
QuestionKey(o) == normalizeQuestion(o.content.json.question.s)

\* mutant: only the newest entry of the history is compared
IsDuplicateOfNewest(history, normalizedQuestion) ==
  history # <<>> /\ history[Len(history)] = normalizedQuestion

\* mutant: the test misses the newest entry, as if it had been made before
\* the last push
IsDuplicateStale(history, normalizedQuestion) ==
  \E i \in DOMAIN history : i < Len(history) /\ history[i] = normalizedQuestion

\* server.js 193
IsDuplicate(history, normalizedQuestion) ==
  \E i \in DOMAIN history : history[i] = normalizedQuestion

\* mutant: the history is never shortened
PushHistoryUnbounded(history, normalizedQuestion) == Append(history, normalizedQuestion)

\* mutant: pop() instead of shift(): the newest entry is dropped
PushHistoryPop(history, normalizedQuestion) ==
  IF Len(history) + 1 > HistoryCapacity
    THEN history
    ELSE Append(history, normalizedQuestion)

\* server.js 199-202
PushHistory(history, normalizedQuestion) ==
  IF Len(history) + 1 > HistoryCapacity
    THEN Tail(Append(history, normalizedQuestion))
    ELSE Append(history, normalizedQuestion)

\* mutant: a failure without a status is retried as well
IsRetryStatusOrNone(status) == status \in {429, 400, 500, 0}

\* mutant: status 400 is left out of the list
IsRetryStatusWithout400(status) == status \in {429, 500}

\* server.js 214
IsRetryStatus(status) == status \in {429, 400, 500}

\* server.js 220
errorMessage(o) ==
  IF Truthy(o.dataErrorMessage) THEN o.dataErrorMessage
  ELSE IF Truthy(o.dataError) THEN o.dataError
  ELSE JString(o.message)

\* mutant: the message is compared with === instead of includes
isModelErrorExact(o) ==
  /\ o.status = 404
  /\ errorMessage(o).t = "string"
  /\ errorMessage(o).s = <<"m", "o", "d", "e", "l">>

\* server.js 221
isModelError(o) ==
  /\ o.status = 404
  /\ errorMessage(o).t = "string"
  /\ includes(errorMessage(o).s, <<"m", "o", "d", "e", "l">>)

\* mutant: the message is compared with === instead of includes
isResourceNotFoundExact(o) ==
  /\ o.status = 404
  /\ errorMessage(o).t = "string"
  /\ errorMessage(o).s = <<"r", "e", "s", "o", "u", "r", "c", "e", " ", "w", "a", "s", " ",
                           "n", "o", "t", " ", "f", "o", "u", "n", "d">>

\* server.js 222
isResourceNotFound(o) ==
  /\ o.status = 404
  /\ errorMessage(o).t = "string"
  /\ includes(errorMessage(o).s,
              <<"r", "e", "s", "o", "u", "r", "c", "e", " ", "w", "a", "s", " ",
                "n", "o", "t", " ", "f", "o", "u", "n", "d">>)

\* what one continuation leaves behind: the request, the history, and the
\* normalized questions it pushed
Result(r, history, pushed) == [req |-> r, history |-> history, pushed |-> pushed]

\* server.js 206-248: catch (apiError), for a rejected call or for a
\* TypeError thrown in the try block (which has no response, hence no status)
CatchApiError(r, o, history) ==
  IF IsRetryStatus(o.status)
    THEN { Result(ScheduleRetry(r, "status"), history, <<>>) }
  ELSE IF isModelError(o)
    THEN { Result(Respond(r, Response(400, "modelError", <<"Model access error">>,
                                      NoProblem, FALSE)),
                  history, <<>>) }
  ELSE IF isResourceNotFound(o)
    THEN { Result(Respond(r, Response(400, "endpointError", <<"API endpoint error">>,
                                      NoProblem, FALSE)),
                  history, <<>>) }
  ELSE { Result(Respond(r, response), history, <<>>) :
           response \in FallbackResponses(r, "apiError") }

\* the TypeError of reading a property of null, or of calling toLowerCase
\* on a question that is no string
TypeError == Rejected(0, JUndefined, JUndefined, <<"TypeError">>)

\* mutant: the question is pushed before the duplicate test, so that a
\* duplicate's retry leaves it in the history
AfterResponsePushFirst(r, o, history) ==
  IF o.isNull
    THEN CatchApiError(r, TypeError, history)
  ELSE IF MissingCompletion(o)
    THEN { Result(ScheduleRetry(r, "completion"), history, <<>>) }
  ELSE IF ParseFails(o.content)
    THEN { Result(ScheduleRetry(r, "parse"), history, <<>>) }
  ELSE IF o.content.json.question.t # "string"
    THEN CatchApiError(r, TypeError, history)
  ELSE LET normalizedQuestion == normalizeQuestion(o.content.json.question.s)
           pushedHistory == PushHistory(history, normalizedQuestion)
       IN  IF IsDuplicate(history, normalizedQuestion)
             THEN { Result(ScheduleRetry(r, "duplicate"), pushedHistory, <<>>) }
             ELSE { Result(Respond(r, Response(200, "generated", <<>>,
                                               [o.content.json EXCEPT
                                                  !.type = JString(r.normalizedTopic)],
                                               TRUE)),
                           pushedHistory, <<normalizedQuestion>>) }

\* server.js 167-205: the code after the await when the call was fulfilled
AfterResponse(r, o, history) ==
  IF o.isNull
    THEN CatchApiError(r, TypeError, history)
  ELSE IF MissingCompletion(o)
    THEN { Result(ScheduleRetry(r, "completion"), history, <<>>) }
  ELSE IF ParseFails(o.content)
    THEN { Result(ScheduleRetry(r, "parse"), history, <<>>) }
  ELSE IF o.content.json.question.t # "string"
    THEN CatchApiError(r, TypeError, history)
  ELSE LET normalizedQuestion == normalizeQuestion(o.content.json.question.s)
       IN  IF IsDuplicate(history, normalizedQuestion)
             THEN { Result(ScheduleRetry(r, "duplicate"), history, <<>>) }
             ELSE { Result(Respond(r, Response(200, "generated", <<>>,
                                               [o.content.json EXCEPT
                                                  !.type = JString(r.normalizedTopic)],
                                               TRUE)),
                           PushHistory(history, normalizedQuestion),
                           <<normalizedQuestion>>) }

\* server.js 145-248: the code after the await
AfterAwait(r, o, history) ==
  IF o.settled = "resolved" THEN AfterResponse(r, o, history)
  ELSE CatchApiError(r, o, history)

\* mutant: the handler does not look at the API key
ValidateWithoutKeyCheck(r, hasKey) ==
  IF r.normalizedGrade = "" \/ r.normalizedTopic = <<>>
    THEN { Respond(r, Response(400, "missing", <<"Missing grade or topic">>,
                               NoProblem, FALSE)) }
  ELSE IF ~InCurriculum(r.normalizedGrade, r.normalizedTopic)
    THEN { Respond(r, Response(400, "invalid", <<"Invalid grade or topic">>,
                               NoProblem, FALSE)) }
  ELSE GenerateProblem(r, 0)

(***************************************************************************)
(* The handler of GET /generate-problem (server.js 100-264), up to the     *)
(* first await.  The catch of line 252 reads normalizedGrade, which is     *)
(* declared inside the try block: it throws a ReferenceError, the async    *)
(* handler's promise is rejected and no response is sent (phase            *)
(* "unhandled").  The model is of a process that keeps running: what the   *)
(* runtime does with an unhandled rejection is outside it.                 *)
(***************************************************************************)
Validate(r, hasKey) ==
  IF r.normalizedGrade = "" \/ r.normalizedTopic = <<>>
    THEN { Respond(r, Response(400, "missing",
                               <<"Missing grade (", r.normalizedGrade, ") or topic (">>
                                 \o r.normalizedTopic \o <<")">>,
                               NoProblem, FALSE)) }
  ELSE IF ~InCurriculum(r.normalizedGrade, r.normalizedTopic)
    THEN { Respond(r, Response(400, "invalid",
                               <<"Invalid grade (", r.normalizedGrade, ") or topic (">>
                                 \o r.normalizedTopic \o <<")">>,
                               NoProblem, FALSE)) }
  ELSE IF ~hasKey
    THEN { Respond(r, Response(500, "noKey",
                               <<"Server configuration error: Missing API key">>,
                               NoProblem, FALSE)) }
  ELSE GenerateProblem(r, 0)

Handle(r, hasKey) ==
  IF r.topic # <<>> /\ DecodeThrows[r.topic]
    THEN { [r EXCEPT !.phase = "unhandled"] }
    ELSE Validate([r EXCEPT !.normalizedTopic = NormalizeTopic(r.topic),
                            !.normalizedGrade = NormalizeGrade(r.grade)],
                  hasKey)

(***************************************************************************)
(* normalizeQuestion on its own (server.js 51-58).  A question is drawn,   *)
(* its key is computed, the key is normalized once more, and the question  *)
(* is then rewritten one edit at a time: the case of a letter is changed,  *)
(* a punctuation character is deleted, two of its whitespace-separated     *)
(* words change places.  (Two questions that differ by inserted            *)
(* punctuation are both drawn, and both reach the one without it.)         *)
(***************************************************************************)
MaxWords == 3

\* the words questions are made of: a lower-case letter, an upper-case
\* letter with punctuation attached, a punctuation mark on its own
Vocabulary == { <<"a">>, <<"B", "?">>, <<"!">> }

\* a question: its words, separated by one blank each, with or without a
\* blank before the first (lead) and after the last (trail)
Questions ==
  { [words |-> ws, lead |-> l, trail |-> t] :
      ws \in UNION { [1..n -> Vocabulary] : n \in 1..MaxWords }, l \in BOOLEAN, t \in BOOLEAN }

\* the string that is passed to normalizeQuestion
Text(q) ==
  (IF q.lead THEN <<" ">> ELSE <<>>) \o JoinWords[q.words]
    \o (IF q.trail THEN <<" ">> ELSE <<>>)

\* no key computed yet (no string of characters)
NoKey == <<"(none)">>

\* question: the string drawn.  key: normalizeQuestion(question).  again:
\* normalizeQuestion(key).  variant: the question as rewritten so far.
\* variantKey: normalizeQuestion of the variant's text.
NoNormalization ==
  [question |-> <<>>, key |-> NoKey, again |-> NoKey,
   variant |-> [words |-> <<>>, lead |-> FALSE, trail |-> FALSE], variantKey |-> NoKey]

FlipCase(c) ==
  IF c \in Range(UpperCase) THEN LowerChar(c)
  ELSE IF c \in Range(LowerCase) THEN UpperCase[IndexOf(c, LowerCase)]
  ELSE c

\* neither a letter nor a digit nor whitespace
IsPunctuation(c) ==
  c \notin Range(LowerCase) \cup Range(UpperCase) \cup Range(Digits) \cup WhiteSpace

\* the variant is replaced by `q`, and its key computed
Rewrite(q) ==
  /\ norm' = [norm EXCEPT !.variant = q, !.variantKey = normalizeQuestion(Text(q))]
  /\ UNCHANGED <<questionHistory, apiKey, req, generated, provider, traffic>>

\* normalizeQuestion(question)
Normalize ==
  /\ norm.key = NoKey
  /\ norm' = [norm EXCEPT !.key = normalizeQuestion(norm.question)]
  /\ UNCHANGED <<questionHistory, apiKey, req, generated, provider, traffic>>

\* normalizeQuestion(normalizeQuestion(question))
Renormalize ==
  /\ norm.key # NoKey /\ norm.again = NoKey
  /\ norm' = [norm EXCEPT !.again = normalizeQuestion(norm.key)]
  /\ UNCHANGED <<questionHistory, apiKey, req, generated, provider, traffic>>

\* the j-th character of the i-th word, a letter, changes case
ChangeCase(i, j) ==
  /\ norm.again # NoKey
  /\ i \in DOMAIN norm.variant.words /\ j \in DOMAIN norm.variant.words[i]
  /\ FlipCase(norm.variant.words[i][j]) # norm.variant.words[i][j]
  /\ Rewrite([norm.variant EXCEPT !.words[i][j] = FlipCase(@)])

\* the j-th character of the i-th word, a punctuation character, is deleted
DropPunctuation(i, j) ==
  /\ norm.again # NoKey
  /\ i \in DOMAIN norm.variant.words /\ j \in DOMAIN norm.variant.words[i]
  /\ IsPunctuation(norm.variant.words[i][j])
  /\ Rewrite([norm.variant EXCEPT
                !.words[i] = SubSeq(@, 1, j - 1) \o SubSeq(@, j + 1, Len(@))])

\* the i-th and the j-th word change places
SwapWords(i, j) ==
  /\ norm.again # NoKey
  /\ i \in DOMAIN norm.variant.words /\ j \in DOMAIN norm.variant.words /\ i < j
  /\ norm.variant.words[i] # <<>> /\ norm.variant.words[j] # <<>>
  /\ norm.variant.words[i] # norm.variant.words[j]
  /\ Rewrite([norm.variant EXCEPT !.words[i] = norm.variant.words[j],
                                  !.words[j] = norm.variant.words[i]])

(***************************************************************************)
(* Actions.                                                                *)
(***************************************************************************)
Used == Cardinality(Range(generated))

\* a client sends a request (its previous one, if any, has ended)
Request(c) ==
  /\ req[c].phase \in {"idle", "done", "unhandled"}
  /\ \E q \in Inputs(traffic) :
       \E r \in Handle([IdleRequest EXCEPT !.grade = q.grade, !.topic = q.topic], apiKey) :
         req' = [req EXCEPT ![c] = r]
  /\ UNCHANGED <<questionHistory, apiKey, generated, provider, traffic, norm>>

\* the outstanding call of the provider settles
ProviderSettles(c) ==
  /\ req[c].phase = "calling"
  /\ \E o \in Outcomes(provider, Used) :
       req' = [req EXCEPT ![c] =
                 [@ EXCEPT !.phase = "settled", !.outcome = o,
                           !.unreachable = @ /\ o.settled = "rejected" /\ o.status = 0]]
  /\ UNCHANGED <<questionHistory, apiKey, generated, provider, traffic, norm>>

\* the invocation resumes after its await
Continue(c) ==
  /\ req[c].phase = "settled"
  /\ \E result \in AfterAwait(req[c], req[c].outcome, questionHistory) :
       /\ req' = [req EXCEPT ![c] = result.req]
       /\ questionHistory' = result.history
       /\ generated' = generated \o result.pushed
  /\ UNCHANGED <<apiKey, provider, traffic, norm>>

\* the setTimeout callback runs: generateProblem(retryCount + 1, maxRetries)
TimerFires(c) ==
  /\ req[c].phase = "waiting"
  /\ \E r \in GenerateProblem(req[c], req[c].timer) :
       req' = [req EXCEPT ![c] = r]
  /\ UNCHANGED <<questionHistory, apiKey, generated, provider, traffic, norm>>

Next ==
  \/ \E c \in Clients : Request(c)
  \/ \E c \in Clients : ProviderSettles(c)
  \/ \E c \in Clients : Continue(c)
  \/ \E c \in Clients : TimerFires(c)

\* one client, every kind of request and of provider answer
Init ==
  /\ questionHistory = <<>>
  /\ generated = <<>>
  /\ apiKey \in BOOLEAN
  /\ req = [c \in {1} |-> IdleRequest]
  /\ provider = "any"
  /\ traffic = "any"
  /\ norm = NoNormalization

Spec == Init /\ [][Next]_vars

\* the provider call completes when awaited, continuations and timers run
Fairness ==
  /\ WF_vars(ProviderSettles(1))
  /\ WF_vars(Continue(1))
  /\ WF_vars(TimerFires(1))

FairSpec == Init /\ [][Next]_vars /\ Fairness

\* two concurrent clients, valid requests, a provider that answers with
\* questions, with status 429, with a 404 about the model, or not at all
InitConcurrent ==
  /\ questionHistory = <<>>
  /\ generated = <<>>
  /\ apiKey = TRUE
  /\ req = [c \in {1, 2} |-> IdleRequest]
  /\ provider = "mixed"
  /\ traffic = "valid"
  /\ norm = NoNormalization

SpecConcurrent == InitConcurrent /\ [][Next]_vars

\* two concurrent clients, valid requests, a provider that answers each call
\* with the next question nobody has generated yet
InitHistory ==
  /\ questionHistory = <<>>
  /\ generated = <<>>
  /\ apiKey = TRUE
  /\ req = [c \in {1, 2} |-> IdleRequest]
  /\ provider = "fresh"
  /\ traffic = "valid"
  /\ norm = NoNormalization

SpecHistory == InitHistory /\ [][Next]_vars

\* normalizeQuestion alone: no request is made
InitNormalize ==
  /\ questionHistory = <<>>
  /\ generated = <<>>
  /\ apiKey = FALSE
  /\ req = <<>>
  /\ provider = "none"
  /\ traffic = "none"
  /\ norm \in { [NoNormalization EXCEPT !.question = Text(q), !.variant = q] : q \in Questions }

NextNormalize ==
  \/ Normalize
  \/ Renormalize
  \/ \E i, j \in 1..(2 * MaxWords) : ChangeCase(i, j)
  \/ \E i, j \in 1..(2 * MaxWords) : DropPunctuation(i, j)
  \/ \E i, j \in 1..(2 * MaxWords) : SwapWords(i, j)

SpecNormalize == InitNormalize /\ [][NextNormalize]_vars

(***************************************************************************)
(* Properties.                                                             *)
(***************************************************************************)
ClientIds == {1, 2}

\* the request of client c passed the validation of server.js 107-118 and
\* the API key is configured
ValidRequest(c) ==
  /\ c \in Clients
  /\ req[c].phase # "idle"
  /\ apiKey
  /\ req[c].topic # <<>> /\ ~DecodeThrows[req[c].topic]
  /\ InCurriculum(NormalizeGrade(req[c].grade), NormalizeTopic(req[c].topic))

\* HTTP 200 with a Problem
IsProblemResponse(res) ==
  /\ res.status = 200
  /\ res.error = <<>>
  /\ Truthy(res.problem.question) /\ Truthy(res.problem.answer)

\* one of the two responses made of a 404 of the provider
IsConfigurationError(res) ==
  /\ res.status = 400
  /\ res.error \in { <<"Model access error">>, <<"API endpoint error">> }
  /\ res.problem = NoProblem

\* the response is a Problem of the bank for the request's grade and topic,
\* or the placeholder that names them when the bank has none
IsFallbackFor(res, grade, topic) ==
  /\ res.status = 200
  /\ ~res.noStore
  /\ IF grade \in DOMAIN fallbackProblems /\ topic \in DOMAIN fallbackProblems[grade]
       THEN \E i \in DOMAIN fallbackProblems[grade][topic] :
              res.problem = fallbackProblems[grade][topic][i]
       ELSE /\ res.problem.answer = JString(<<"N/A">>)
            /\ res.problem.type = JString(topic)
            /\ \E i \in DOMAIN res.problem.question.s : res.problem.question.s[i] = grade
            /\ includes(res.problem.question.s, topic)

\* this step is one of client c's request
StepOf(c) == c \in Clients /\ req'[c] # req[c]

\* C1: every request with a grade/topic of the curriculum map and a
\* configured API key eventually receives a response, provided every call of
\* the provider eventually completes; the response is an HTTP 200 Problem or
\* one of the two configuration errors made of a 404, never anything else.
C1_AlwaysAnswered ==
  \A c \in ClientIds :
    /\ [](ValidRequest(c) /\ req[c].res # NoResponse
            => IsProblemResponse(req[c].res) \/ IsConfigurationError(req[c].res))
    /\ ValidRequest(c) ~>
         (/\ ValidRequest(c)
          /\ req[c].phase = "done"
          /\ IsProblemResponse(req[c].res) \/ IsConfigurationError(req[c].res))

\* a valid request answered with a fallback Problem after its retries ran out
C1_Witness ==
  \E c \in Clients :
    /\ ValidRequest(c) /\ req[c].phase = "done"
    /\ req[c].retryCount = maxRetries /\ IsProblemResponse(req[c].res)

\* C2: a request whose every attempt ended in a retry condition has made
\* exactly 7 calls of the provider when it responds, and responds with a
\* Problem of FallbackBank[grade][topic] when that entry exists, otherwise with
\* the placeholder Problem that names the grade and the topic.
C2_ExhaustionFallsBack ==
  \A c \in Clients :
    (req[c].phase = "done" /\ req[c].calls >= 1 /\ req[c].retryCount = req[c].calls)
      => /\ req[c].calls = 7
         /\ IsFallbackFor(req[c].res, NormalizeGrade(req[c].grade), NormalizeTopic(req[c].topic))

\* seven attempts of a request for a topic of the bank all ended in a retry
C2_Witness ==
  \E c \in Clients :
    /\ req[c].phase = "done" /\ req[c].retryCount = req[c].calls /\ req[c].calls = 7
    /\ req[c].normalizedTopic = geometry
    /\ req[c].res.problem = fallbackProblems["10"][geometry][7]

\* C3, as the claim states it: a request all of whose calls failed without any
\* HTTP response status returns its fallback Problem only after exactly 7
\* attempts.
C3_Original ==
  \A c \in Clients :
    (req[c].phase = "done" /\ req[c].calls >= 1 /\ req[c].unreachable)
      => req[c].calls = 7

\* C3, amended: a request whose call failed without any HTTP response status
\* returns its fallback Problem after exactly 1 attempt, without any retry.
C3_UnreachableFallsBackAtOnce ==
  \A c \in Clients :
    (req[c].phase = "done" /\ req[c].calls >= 1 /\ req[c].unreachable)
      => /\ req[c].calls = 1 /\ req[c].retryCount = 0 /\ req[c].lastRetry = "none"
         /\ IsFallbackFor(req[c].res, NormalizeGrade(req[c].grade), NormalizeTopic(req[c].topic))

\* a request answered with a fallback Problem after its only call failed
\* without a response
C3_Witness ==
  \E c \in Clients :
    /\ req[c].phase = "done" /\ req[c].calls = 1 /\ req[c].unreachable
    /\ req[c].res.site = "apiError"

\* C4: no request ever has more than 7 calls of the provider made for it,
\* whatever the provider answers and whatever another request does meanwhile.
C4_AtMostSevenCalls == \A c \in Clients : req[c].calls <= 7

\* a request is on its seventh call while another one is in flight
C4_Witness ==
  \E c, d \in Clients :
    /\ c # d
    /\ req[c].calls = 7 /\ req[c].phase = "calling"
    /\ req[d].phase \in {"calling", "settled", "waiting"}

\* the completion client c is about to process carries a question whose
\* normalized text is in the history now
DuplicateSettled(c) ==
  /\ c \in Clients
  /\ req[c].phase = "settled"
  /\ req[c].outcome.settled = "resolved"
  /\ ~req[c].outcome.isNull /\ req[c].outcome.hasContent
  /\ req[c].outcome.content.first = "{" /\ req[c].outcome.content.last = "}"
  /\ req[c].outcome.content.parses
  /\ req[c].outcome.content.json.question.t = "string"
  /\ Truthy(req[c].outcome.content.json.answer)
  /\ normalizeQuestion(req[c].outcome.content.json.question.s) \in Range(questionHistory)

\* C5: an attempt whose question normalizes to an entry of the history at
\* the moment its completion is processed is not answered with a success: it
\* leaves the history as it is and schedules a retry, and that retry is the
\* fallback once the 7 attempts are used up.
C5_DuplicateRejected ==
  [][\A c \in ClientIds :
       /\ (DuplicateSettled(c) /\ StepOf(c))
            => /\ req'[c].phase = "waiting"
               /\ req'[c].timer = req[c].retryCount + 1
               /\ req'[c].res = NoResponse
               /\ req'[c].calls = req[c].calls
               /\ questionHistory' = questionHistory
       /\ (c \in Clients /\ req[c].phase = "waiting" /\ req[c].lastRetry = "duplicate" /\ StepOf(c))
            => /\ questionHistory' = questionHistory
               /\ IF req[c].calls = 7
                    THEN /\ req'[c].phase = "done"
                         /\ IsFallbackFor(req'[c].res, NormalizeGrade(req[c].grade),
                                          NormalizeTopic(req[c].topic))
                    ELSE req'[c].phase = "calling" /\ req'[c].calls = req[c].calls + 1
  ]_vars

\* a duplicate in another wording than the one in the history was rejected
\* on the seventh attempt, and the request answered with the fallback
C5_Witness ==
  \E c \in Clients :
    /\ req[c].phase = "done" /\ req[c].lastRetry = "duplicate"
    /\ req[c].calls = 7 /\ req[c].res.site = "exhausted"
    /\ Len(questionHistory) >= 2

\* C6: the history never holds more than 20 entries, however many requests
\* there are and however they interleave.
C6_HistoryAtMostTwenty == Len(questionHistory) <= 20

\* more than 20 questions have been generated and the history is full
C6_Witness == Len(generated) > 20 /\ Len(questionHistory) = 20

\* the last n elements of a sequence
LastOf(seq, n) == SubSeq(seq, Len(seq) - n + 1, Len(seq))

PairwiseDistinct(seq) == \A i, j \in DOMAIN seq : i # j => seq[i] # seq[j]

\* C7: after N successful generations of pairwise distinct normalized
\* questions the history is the last min(N, 20) of them, in the order of their
\* generation: the oldest are evicted first.
C7_HistoryIsFifo ==
  PairwiseDistinct(generated)
    => questionHistory =
         LastOf(generated, IF Len(generated) < 20 THEN Len(generated) ELSE 20)

\* 25 distinct questions were generated; the first five are evicted
C7_Witness ==
  /\ Len(generated) = 25
  /\ PairwiseDistinct(generated)
  /\ questionHistory[1] = generated[6]
  /\ \A i \in 1..5 : generated[i] \notin Range(questionHistory)

\* the call of client c has failed with the HTTP status `status`
FailedWith(c, statuses) ==
  /\ c \in Clients
  /\ req[c].phase = "settled"
  /\ req[c].outcome.settled = "rejected"
  /\ req[c].outcome.status \in statuses

\* C8: a failure of the provider with status 429, 400 or 500 produces no
\* response: it schedules a retry with the next attempt number, whose call is
\* then made if attempts remain (a later attempt can still end in a generated
\* Problem: C8_Witness).
C8_TransientStatusRetries ==
  [][\A c \in ClientIds :
       /\ (FailedWith(c, {429, 400, 500}) /\ StepOf(c))
            => /\ req'[c].phase = "waiting"
               /\ req'[c].timer = req[c].retryCount + 1
               /\ req'[c].res = NoResponse
               /\ questionHistory' = questionHistory
       /\ (c \in Clients /\ req[c].phase = "waiting" /\ req[c].lastRetry = "status"
             /\ req[c].calls < 7 /\ StepOf(c))
            => /\ req'[c].phase = "calling"
               /\ req'[c].retryCount = req[c].retryCount + 1
               /\ req'[c].calls = req[c].calls + 1
               /\ req'[c].res = NoResponse
  ]_vars

\* a request whose last retry was due to such a status ended in a generated
\* Problem
C8_Witness ==
  \E c \in Clients :
    /\ req[c].phase = "done" /\ req[c].lastRetry = "status"
    /\ req[c].res.site = "generated" /\ req[c].res.status = 200
    /\ req[c].calls >= 2

\* the error message of the provider's response: error.message of its body,
\* or error itself when that is a string
ProviderMessage(o) ==
  IF o.dataErrorMessage.t = "string" /\ o.dataErrorMessage.s # <<>> THEN o.dataErrorMessage.s
  ELSE IF o.dataError.t = "string" THEN o.dataError.s
  ELSE <<>>

MessageNamesModel(c) == includes(ProviderMessage(req[c].outcome), <<"m", "o", "d", "e", "l">>)

MessageSaysNotFound(c) ==
  includes(ProviderMessage(req[c].outcome),
           <<"r", "e", "s", "o", "u", "r", "c", "e", " ", "w", "a", "s", " ",
             "n", "o", "t", " ", "f", "o", "u", "n", "d">>)

\* the step ends the request of client c with the HTTP 400 response `error`:
\* no call, no Problem, the history as it was
EndsWithError(c, error) ==
  /\ req'[c].phase = "done"
  /\ req'[c].res.status = 400
  /\ req'[c].res.error = <<error>>
  /\ req'[c].res.problem = NoProblem
  /\ req'[c].calls = req[c].calls
  /\ req'[c].timer = 0
  /\ questionHistory' = questionHistory

\* C9: a failure with status 404 whose error message contains "model", on
\* any attempt, ends the request at once with HTTP 400 'Model access error':
\* no further call, no fallback Problem, the history unchanged.
C9_ModelErrorSurfaced ==
  [][\A c \in ClientIds :
       (FailedWith(c, {404}) /\ MessageNamesModel(c) /\ StepOf(c))
         => EndsWithError(c, "Model access error")
  ]_vars

\* a request ended with the model error on a later attempt than the first
C9_Witness ==
  \E c \in Clients :
    /\ req[c].phase = "done" /\ req[c].res.site = "modelError"
    /\ req[c].res.status = 400 /\ req[c].calls >= 2

\* C10, as the claim states it: a failure with status 404 whose error
\* message contains "resource was not found" ends the request at once with
\* HTTP 400 'API endpoint error', whatever else the message contains.
C10_Original ==
  [][\A c \in ClientIds :
       (FailedWith(c, {404}) /\ MessageSaysNotFound(c) /\ StepOf(c))
         => EndsWithError(c, "API endpoint error")
  ]_vars

\* C10, amended: a failure with status 404 whose error message contains
\* "resource was not found" and does not contain "model" ends the request at
\* once with HTTP 400 'API endpoint error', whatever else the message contains.
C10_EndpointErrorSurfaced ==
  [][\A c \in ClientIds :
       (FailedWith(c, {404}) /\ MessageSaysNotFound(c) /\ ~MessageNamesModel(c) /\ StepOf(c))
         => EndsWithError(c, "API endpoint error")
  ]_vars

\* a request ended with the endpoint error on a later attempt than the first
C10_Witness ==
  \E c \in Clients :
    /\ req[c].phase = "done" /\ req[c].res.site = "endpointError"
    /\ req[c].res.status = 400 /\ req[c].calls >= 2

\* the query of request r names a grade/topic pair of the curriculum map
InCurriculumRequest(r) ==
  /\ r.topic # <<>> /\ ~DecodeThrows[r.topic]
  /\ InCurriculum(NormalizeGrade(r.grade), NormalizeTopic(r.topic))

\* this step is the arrival of a request of client c
Arrives(c) ==
  /\ StepOf(c)
  /\ req[c].phase \in {"idle", "done", "unhandled"}

\* the arriving request of client c is rejected with `status` and `error`
\* before any attempt: no call, no retry, no Problem, the history as it was
RejectedWith(c, status, site) ==
  /\ req'[c].phase = "done"
  /\ req'[c].res.status = status
  /\ req'[c].res.site = site
  /\ req'[c].res.error # <<>>
  /\ req'[c].res.problem = NoProblem
  /\ req'[c].calls = 0
  /\ req'[c].timer = 0 /\ req'[c].retryCount = 0 /\ req'[c].lastRetry = "none"
  /\ questionHistory' = questionHistory

\* C11: when no API key is configured, a request with a grade/topic of the
\* curriculum map is answered with the HTTP 500 configuration error: no call
\* of the provider is made, no fallback Problem is returned and the history
\* is left as it was.
C11_MissingKeyIs500 ==
  [][\A c \in ClientIds :
       (Arrives(c) /\ ~apiKey /\ InCurriculumRequest(req'[c]))
         => /\ RejectedWith(c, 500, "noKey")
            /\ req'[c].res.error = <<"Server configuration error: Missing API key">>
  ]_vars

\* a request for a topic of the curriculum map, written with other case and
\* percent-encoded blanks, was answered with the configuration error
C11_Witness ==
  \E c \in Clients :
    /\ ~apiKey /\ req[c].phase = "done" /\ req[c].res.status = 500
    /\ req[c].topic # req[c].normalizedTopic /\ req[c].normalizedTopic = geometry
    /\ req[c].calls = 0 /\ questionHistory = <<>>

\* C12, as the claim states it: a request whose grade or topic is missing,
\* or whose grade/topic pair is not in the curriculum map, is answered with an
\* HTTP 400 error before any attempt: no call of the provider, no retry, no
\* fallback Problem, the history as it was.
C12_InvalidIs400 ==
  [][\A c \in ClientIds :
       (Arrives(c) /\ ~InCurriculumRequest(req'[c]))
         => \/ RejectedWith(c, 400, "missing")
            \/ RejectedWith(c, 400, "invalid")
  ]_vars

\* what the code does for C12's requests: those whose topic decodeURIComponent
\* accepts are answered with HTTP 400 as the claim says; one whose topic it
\* rejects gets no response at all (and no call, no retry, no Problem)
C12_DecodableInvalidIs400 ==
  [][\A c \in ClientIds :
       (Arrives(c) /\ ~InCurriculumRequest(req'[c]))
         => IF req'[c].topic # <<>> /\ DecodeThrows[req'[c].topic]
              THEN /\ req'[c].phase = "unhandled" /\ req'[c].res = NoResponse
                   /\ req'[c].calls = 0 /\ req'[c].timer = 0
                   /\ questionHistory' = questionHistory
              ELSE \/ RejectedWith(c, 400, "missing")
                   \/ RejectedWith(c, 400, "invalid")
  ]_vars

\* a request whose topic is a malformed percent-encoding was left unanswered
C12_Unanswered ==
  \E c \in Clients :
    /\ req[c].phase = "unhandled" /\ req[c].res = NoResponse
    /\ req[c].grade = "10" /\ DecodeThrows[req[c].topic]

\* the field holds something that is not empty: a string with characters, an
\* array with elements, a number
NonEmpty(v) ==
  \/ v.t \in {"string", "array"} /\ v.s # <<>>
  \/ v.t = "number"

\* C13, as the claim states it: every HTTP 200 response of /generate-problem,
\* generated or fallback, carries a non-empty question, a non-empty answer and
\* a type equal to the request's normalized topic, whatever type the
\* provider's JSON carried.
C13_ProblemWellFormed ==
  \A c \in Clients :
    req[c].res.status = 200
      => /\ NonEmpty(req[c].res.problem.question)
         /\ NonEmpty(req[c].res.problem.answer)
         /\ req[c].res.problem.type = JString(NormalizeTopic(req[c].topic))

\* what the code ensures for C13's responses: the question is a non-empty
\* string, the answer is truthy, the type is the normalized topic
C13_TypeIsTopic ==
  \A c \in Clients :
    req[c].res.status = 200
      => /\ req[c].res.problem.question.t = "string"
         /\ req[c].res.problem.question.s # <<>>
         /\ Truthy(req[c].res.problem.answer)
         /\ req[c].res.problem.type = JString(NormalizeTopic(req[c].topic))

\* a generated Problem was sent whose answer is an empty array
C13_EmptyAnswerSent ==
  \E c \in Clients :
    /\ req[c].res.status = 200 /\ req[c].res.site = "generated"
    /\ req[c].res.problem.answer = JArray(<<>>)
    /\ req[c].res.problem.type = JString(req[c].normalizedTopic)

\* this step of client c sends the HTTP 200 response with a generated Problem
SendsGenerated(c) ==
  /\ StepOf(c)
  /\ req[c].phase = "settled"
  /\ req'[c].phase = "done"
  /\ req'[c].res.status = 200 /\ req'[c].res.site = "generated"

\* C14: questionHistory changes only in the step that sends a generated
\* Problem: every step that schedules a retry (missing completion, parse
\* failure, missing fields, duplicate, status 429/400/500), every fallback
\* response, every configuration error and every validation rejection leaves
\* it as it was.
C14_HistoryChangesOnSuccessOnly ==
  [][/\ questionHistory' # questionHistory => \E c \in ClientIds : SendsGenerated(c)
     /\ \A c \in ClientIds :
          (StepOf(c) /\ ~SendsGenerated(c)) => questionHistory' = questionHistory
     /\ \A c \in ClientIds :
          SendsGenerated(c)
            => /\ questionHistory' # questionHistory
               /\ questionHistory'[Len(questionHistory')] =
                    normalizeQuestion(req'[c].res.problem.question.s)
  ]_vars

\* with one question in the history, a request whose last retry was for a
\* duplicate has ended with the fallback, the history still that one question
C14_Witness ==
  \E c \in Clients :
    /\ Len(questionHistory) = 1
    /\ req[c].phase = "done" /\ req[c].res.site = "exhausted"
    /\ req[c].lastRetry = "duplicate"

\* C15: the attempts of one request never overlap.  A call is made only when
\* the request arrives or when the timer of a scheduled retry fires, a retry
\* is scheduled only when the outstanding call's outcome is being processed,
\* while a call is outstanding the request does nothing but receive its
\* outcome, and the attempt number (retryCount) of each call is one more than
\* that of the call before: the k-th call is attempt k - 1.
C15_AttemptsInSequence ==
  [][\A c \in ClientIds :
       (StepOf(c) /\ ~Arrives(c))
         => /\ req[c].phase = "calling"
                 => /\ req'[c].phase = "settled"
                    /\ req'[c].outcome # NoOutcome
                    /\ req'[c].calls = req[c].calls
            /\ req'[c].phase = "waiting"
                 => /\ req[c].phase = "settled"
                    /\ req'[c].timer = req[c].retryCount + 1
                    /\ req'[c].calls = req[c].calls
            /\ req'[c].calls # req[c].calls
                 => /\ req[c].phase = "waiting"
                    /\ req'[c].phase = "calling"
                    /\ req'[c].calls = req[c].calls + 1
                    /\ req'[c].retryCount = req[c].retryCount + 1
            /\ req'[c].phase = "calling" => req'[c].calls = req'[c].retryCount + 1
            /\ req'[c].retryCount \in {req[c].retryCount, req[c].retryCount + 1}
  ]_vars

\* the third call of a request is outstanding while another request waits
\* for its retry
C15_Witness ==
  \E c, d \in Clients :
    /\ c # d
    /\ req[c].phase = "calling" /\ req[c].calls = 3 /\ req[c].retryCount = 2
    /\ req[d].phase = "waiting"

\* the calls of clients c and d have both returned the same question (up to
\* case, punctuation and word order), which is not in the history: neither
\* completion has been processed yet
BothHoldFresh(c, d) ==
  /\ c \in Clients /\ d \in Clients /\ c # d
  /\ req[c].phase = "settled" /\ req[d].phase = "settled"
  /\ BringsQuestion(req[c].outcome) /\ BringsQuestion(req[d].outcome)
  /\ QuestionKey(req[c].outcome) = QuestionKey(req[d].outcome)
  /\ ~IsDuplicate(questionHistory, QuestionKey(req[c].outcome))

\* C16, as the claim states it: when the calls of two concurrent requests
\* have returned the same question, not yet pushed, the processing of one
\* leaves the other able to pass the duplicate check too, so that both push
\* the question.
C16_Original ==
  [][\A c, d \in ClientIds :
       (StepOf(c) /\ BothHoldFresh(c, d))
         => ~IsDuplicate(questionHistory', QuestionKey(req[d].outcome))
  ]_vars

\* C16, amended: the duplicate check and the push of one request run without
\* interruption, so of two concurrent requests whose calls return the same
\* question only the one processed first pushes it: the other finds it in
\* the history and retries, and the history never holds the same normalized
\* question twice.
C16_NoDuplicateInHistory ==
  [][/\ PairwiseDistinct(questionHistory')
     /\ \A c, d \in ClientIds :
          (StepOf(c) /\ BothHoldFresh(c, d))
            => /\ SendsGenerated(c)
               /\ IsDuplicate(questionHistory', QuestionKey(req[d].outcome))
               /\ req'[d] = req[d]
     /\ \A d \in ClientIds :
          (StepOf(d) /\ DuplicateSettled(d))
            => req'[d].phase = "waiting" /\ questionHistory' = questionHistory
  ]_vars

\* the first calls of two requests returned the same question (the provider
\* of this scenario never returns a question that has been pushed); one
\* request was answered with it, the other has retried as for a duplicate,
\* and the history holds the question once
C16_Witness ==
  \E c, d \in Clients :
    /\ c # d
    /\ provider = "fresh"
    /\ req[c].phase = "done" /\ req[c].res.site = "generated" /\ req[c].calls = 1
    /\ req[d].phase = "waiting" /\ req[d].lastRetry = "duplicate" /\ req[d].calls = 1
    /\ questionHistory = <<normalizeQuestion(req[c].res.problem.question.s)>>

\* processing the settled call of client c throws a TypeError: response.data
\* is null, or the question is no string
AttemptThrows(c) ==
  /\ c \in Clients
  /\ req[c].phase = "settled"
  /\ req[c].outcome.settled = "resolved"
  /\ \/ req[c].outcome.isNull
     \/ /\ ~MissingCompletion(req[c].outcome) /\ ~ParseFails(req[c].outcome.content)
        /\ req[c].outcome.content.json.question.t # "string"

\* this step answers client c with a fallback Problem
AnswersWithFallback(c) ==
  /\ req'[c].phase = "done"
  /\ req'[c].res.status = 200 /\ ~req'[c].res.noStore
  /\ Truthy(req'[c].res.problem.question) /\ Truthy(req'[c].res.problem.answer)
  /\ questionHistory' = questionHistory

\* C17, as the claim states it: an unclassified error thrown while a request
\* is handled, be it while the topic is decoded or inside an attempt (the
\* first or a retried one), is answered with a fallback Problem.
C17_ErrorsFallBack ==
  [][\A c \in ClientIds :
       /\ (Arrives(c) /\ req'[c].topic # <<>> /\ DecodeThrows[req'[c].topic])
            => AnswersWithFallback(c)
       /\ (AttemptThrows(c) /\ StepOf(c))
            => /\ AnswersWithFallback(c)
               /\ IsFallbackFor(req'[c].res, req[c].normalizedGrade, req[c].normalizedTopic)
  ]_vars

\* what the code does for C17's errors: one thrown inside an attempt is
\* caught by the catch of that attempt and answered with the fallback; one
\* thrown while the topic is decoded is answered with nothing
C17_AttemptErrorsFallBack ==
  [][\A c \in ClientIds :
       /\ (Arrives(c) /\ req'[c].topic # <<>> /\ DecodeThrows[req'[c].topic])
            => /\ req'[c].phase = "unhandled" /\ req'[c].res = NoResponse
               /\ questionHistory' = questionHistory
       /\ (AttemptThrows(c) /\ StepOf(c))
            => /\ AnswersWithFallback(c)
               /\ req'[c].res.site = "apiError"
               /\ IsFallbackFor(req'[c].res, req[c].normalizedGrade, req[c].normalizedTopic)
  ]_vars

\* a retried attempt is about to throw: its call was answered with a body
\* that is null
C17_RetriedAttemptThrows ==
  \E c \in Clients :
    AttemptThrows(c) /\ req[c].outcome.isNull /\ req[c].calls >= 2

\* every rewriting of the question has the key of the question
KeyOfVariantIsKey == norm.variantKey # NoKey => norm.variantKey = norm.key

\* normalizing the key gives the key
KeyIsFixedPoint == norm.again # NoKey => norm.again = norm.key

\* C18, as the claim states it: normalizeQuestion maps two questions that
\* differ only in letter case, in punctuation or in the order of their
\* whitespace-separated words to the same key, and maps its own output to
\* itself.
C18_KeyIsCanonical == KeyOfVariantIsKey /\ KeyIsFixedPoint

\* what the code ensures of C18: a change of case and the deletion of a
\* punctuation character leave the key as it is
C18_CaseAndPunctuationCollide ==
  [][(/\ norm'.variant # norm.variant
      /\ \/ toLowerCase(Text(norm'.variant)) = toLowerCase(Text(norm.variant))
         \/ Len(Text(norm'.variant)) < Len(Text(norm.variant)))
       => norm'.variantKey = normalizeQuestion(Text(norm.variant))
  ]_vars

\* the question " a " has the key "  a", whose own key is " a"
C18_KeyNotFixed ==
  /\ norm.question = <<" ", "a", " ">>
  /\ norm.key = <<" ", " ", "a">>
  /\ norm.again = <<" ", "a">>

\* "a ! a" was rewritten to "! a a" by two words changing places: the keys
\* are "a a" and " a a"
C18_WordOrderSplitsKeys ==
  /\ norm.question = <<"a", " ", "!", " ", "a">> /\ norm.key = <<"a", " ", "a">>
  /\ Text(norm.variant) = <<"!", " ", "a", " ", "a">>
  /\ norm.variantKey = <<" ", "a", " ", "a">>

\* C19, as the claim states it: every Problem /generate-problem returns has
\* options that are a sequence of no entries or of exactly 4, whatever options
\* the provider's JSON contained.
C19_OptionsEmptyOrFour ==
  \A c \in Clients :
    req[c].res.status = 200
      => /\ req[c].res.problem.options.t = "array"
         /\ Len(req[c].res.problem.options.s) \in {0, 4}

\* what the code does with C19's options: a generated Problem carries the
\* options of the provider's JSON as they came, a fallback Problem carries
\* no options field
C19_OptionsPassThrough ==
  [][\A c \in ClientIds :
       (StepOf(c) /\ req'[c].res.status = 200)
         => IF SendsGenerated(c)
              THEN req'[c].res.problem.options = req[c].outcome.content.json.options
              ELSE req'[c].res.problem.options = JUndefined
  ]_vars

\* a generated Problem was sent with the three options the provider gave
C19_ThreeOptionsSent ==
  \E c \in Clients :
    /\ req[c].res.status = 200 /\ req[c].res.site = "generated"
    /\ req[c].res.problem.options.t = "array"
    /\ Len(req[c].res.problem.options.s) = 3

\* the invocations of generateProblem of client c's request that have run
\* to their end: all that were started, but the one that is at its await
CompletedInvocations(c) ==
  IF req[c].calls = 0 THEN 0
  ELSE IF req[c].phase \in {"calling", "settled"} THEN req[c].retryCount
  ELSE req[c].retryCount + 1

\* C20: no request receives more than one response.  Every invocation of
\* generateProblem that has run to its end has either scheduled one retry or
\* sent one response, never both and never two: retries and responses
\* together are as many as the invocations, and of the whole chain at most
\* one is a response, which ends the request.
C20_AtMostOneResponse ==
  \A c \in Clients :
    /\ req[c].sent <= 1
    /\ req[c].sent + req[c].scheduled =
         (IF req[c].calls = 0 /\ req[c].phase = "done" THEN 1 ELSE CompletedInvocations(c))
    /\ req[c].sent = 1 <=> req[c].phase = "done"
    /\ req[c].sent = 1 <=> req[c].res # NoResponse
    /\ req[c].phase = "waiting" => req[c].scheduled = req[c].retryCount + 1

\* a request was answered by its fourth invocation or a later one, after as
\* many retries as invocations before it, while another request is under way
C20_Witness ==
  \E c, d \in Clients :
    /\ c # d
    /\ req[c].phase = "done" /\ req[c].sent = 1
    /\ req[c].scheduled >= 3 /\ req[c].scheduled = req[c].retryCount
    /\ req[d].phase \in {"calling", "settled", "waiting"}

====
